---- MODULE Spec2Model ----
(***************************************************************************)
(* The retry wrapper of lib/web.js: retryWithBackoff, with getRetryDelay   *)
(* and logQuotaViolations, as a state machine of one or two calls of the   *)
(* wrapper.  An error message is a sequence of tokens (a token stands for  *)
(* a character or an unbroken word of the message); the brace scan, the    *)
(* JSON parse and parseInt are computed on those tokens.                   *)
(***************************************************************************)
EXTENDS Integers, Sequences, FiniteSets, TLC

(***************************************************************************)
(* Bounds of the model.                                                    *)
(***************************************************************************)
\* the largest maxRetries a call of Spec is made with
MaxRetriesBound == 3
\* fn is invoked at most this many times in one call of Spec
MaxInvocations == 3
\* the same two bounds for the two interleaved calls of SpecTwo
MaxRetriesTwo == 2
MaxInvocationsTwo == 2

Calls == {1, 2}
Values == {"summary A", "summary B"}

Min(a, b) == IF a < b THEN a ELSE b
Max(a, b) == IF a > b THEN a ELSE b
Last(s) == s[Len(s)]

(***************************************************************************)
(* String.prototype.indexOf / lastIndexOf / substring, on token sequences. *)
(* Indices are 0-based as in JavaScript; -1 means "not found".             *)
(***************************************************************************)
IndexOf(s, t) ==
  IF \E i \in 1..Len(s) : s[i] = t
  THEN (CHOOSE i \in 1..Len(s) : s[i] = t /\ \A j \in 1..(i - 1) : s[j] # t) - 1
  ELSE -1

LastIndexOf(s, t) ==
  IF \E i \in 1..Len(s) : s[i] = t
  THEN (CHOOSE i \in 1..Len(s) : s[i] = t /\ \A j \in (i + 1)..Len(s) : s[j] # t) - 1
  ELSE -1

\* substring(a, b): both ends clamped to [0, length], swapped when a > b
Substring(s, a, b) ==
  LET ca == Max(0, Min(a, Len(s)))
      cb == Max(0, Min(b, Len(s)))
  IN SubSeq(s, Min(ca, cb) + 1, Max(ca, cb))

(***************************************************************************)
(* JSON.parse on tokens.  A text is a sequence of tokens: "{" "}" "[" "]", *)
(* a key (the quoted name with its colon, such as "code:"), a digit, the   *)
(* literal null, a quote, or a word.  The comma between members or items   *)
(* belongs to the neighbouring token.  A parsed value is a record tagged   *)
(* by kind: object, array, string, number, null; Undefined and NaN are the *)
(* two JavaScript values JSON.parse never returns.                         *)
(***************************************************************************)
DigitSeq == <<"0", "1", "2", "3", "4", "5", "6", "7", "8", "9">>
Digits == {DigitSeq[i] : i \in 1..Len(DigitSeq)}
DigitVal(t) == IndexOf(DigitSeq, t)
Keys == {"error:", "code:", "details:", "@type:", "retryDelay:",
         "violations:", "quotaId:", "quotaValue:"}

Undefined == [kind |-> "undefined"]
Null == [kind |-> "null"]
NaN == [kind |-> "NaN"]
Num(n) == [kind |-> "number", n |-> n]
Str(chars) == [kind |-> "string", chars |-> chars]
Arr(items) == [kind |-> "array", items |-> items]
Obj(fields) == [kind |-> "object", fields |-> fields]
NoFields == [k \in {} |-> Null]
\* a later member of the same name replaces the earlier one
Put(fields, k, v) ==
  [x \in (DOMAIN fields) \cup {k} |-> IF x = k THEN v ELSE fields[x]]

ParseFail == [ok |-> FALSE, val |-> Undefined, next |-> 0]
Parsed(v, j) == [ok |-> TRUE, val |-> v, next |-> j]

RECURSIVE ParseValue(_, _)
RECURSIVE ParseMembers(_, _, _)
RECURSIVE ParseItems(_, _, _)
RECURSIVE ParseChars(_, _, _)
RECURSIVE ParseNumber(_, _, _)

ParseNumber(s, i, n) ==
  IF i <= Len(s) /\ s[i] \in Digits
  THEN ParseNumber(s, i + 1, 10 * n + DigitVal(s[i]))
  ELSE Parsed(Num(n), i)

ParseChars(s, i, acc) ==
  IF i > Len(s) THEN ParseFail
  ELSE IF s[i] = "\"" THEN Parsed(Str(acc), i + 1)
  ELSE ParseChars(s, i + 1, Append(acc, s[i]))

ParseItems(s, i, acc) ==
  IF i > Len(s) THEN ParseFail
  ELSE IF s[i] = "]" THEN Parsed(Arr(acc), i + 1)
  ELSE LET r == ParseValue(s, i)
       IN IF r.ok THEN ParseItems(s, r.next, Append(acc, r.val)) ELSE ParseFail

ParseMembers(s, i, acc) ==
  IF i > Len(s) THEN ParseFail
  ELSE IF s[i] = "}" THEN Parsed(Obj(acc), i + 1)
  ELSE IF s[i] \in Keys
       THEN LET r == ParseValue(s, i + 1)
            IN IF r.ok THEN ParseMembers(s, r.next, Put(acc, s[i], r.val))
               ELSE ParseFail
       ELSE ParseFail

ParseValue(s, i) ==
  IF i > Len(s) THEN ParseFail
  ELSE IF s[i] = "{" THEN ParseMembers(s, i + 1, NoFields)
  ELSE IF s[i] = "[" THEN ParseItems(s, i + 1, <<>>)
  ELSE IF s[i] = "\"" THEN ParseChars(s, i + 1, <<>>)
  ELSE IF s[i] = "null" THEN Parsed(Null, i + 1)
  ELSE IF s[i] \in Digits
       \* a number of several digits does not start with 0
       THEN IF s[i] = "0" /\ i < Len(s) /\ s[i + 1] \in Digits THEN ParseFail
            ELSE ParseNumber(s, i, 0)
  ELSE ParseFail

\* the outcome of an expression that may throw: the value, or the error's name
Ret(v) == [threw |-> FALSE, name |-> "", val |-> v]
Threw(name) == [threw |-> TRUE, name |-> name, val |-> Undefined]

\* JSON.parse(text): the whole text is one value, else a SyntaxError
JSONparse(text) ==
  LET r == ParseValue(text, 1)
  IN IF r.ok /\ r.next = Len(text) + 1 THEN Ret(r.val) ELSE Threw("SyntaxError")

(***************************************************************************)
(* JavaScript's property access, truthiness, replace and parseInt.         *)
(***************************************************************************)
\* v[k] of a value that is neither null nor undefined
Get(v, k) ==
  IF v.kind = "object" /\ k \in DOMAIN v.fields THEN v.fields[k] ELSE Undefined

\* v?.[k]
OptGet(v, k) == IF v.kind \in {"undefined", "null"} THEN Undefined ELSE Get(v, k)

Truthy(v) ==
  CASE v.kind \in {"undefined", "null", "NaN"} -> FALSE
    [] v.kind = "number" -> v.n # 0
    [] v.kind = "string" -> v.chars # <<>>
    [] OTHER -> TRUE

\* chars.replace(t, ''): the first occurrence of t removed
Replace(chars, t) ==
  LET i == IndexOf(chars, t)
  IN IF i = -1 THEN chars
     ELSE SubSeq(chars, 1, i) \o SubSeq(chars, i + 2, Len(chars))

RECURSIVE LeadingDigits(_, _, _)
LeadingDigits(chars, i, n) ==
  IF i <= Len(chars) /\ chars[i] \in Digits
  THEN LeadingDigits(chars, i + 1, 10 * n + DigitVal(chars[i]))
  ELSE n

\* parseInt(chars): the number its leading digits spell, NaN when it has none
ParseInt(chars) ==
  IF chars # <<>> /\ chars[1] \in Digits THEN Num(LeadingDigits(chars, 1, 0)) ELSE NaN

(***************************************************************************)
(* getRetryDelay and logQuotaViolations.                                   *)
(***************************************************************************)
RetryInfoType == "type.googleapis.com/google.rpc.RetryInfo"
QuotaFailureType == "type.googleapis.com/google.rpc.QuotaFailure"

\* the first item d of items, from index i on, with d['@type'] === type;
\* reading a property of a null item is a TypeError
RECURSIVE FindFrom(_, _, _)
FindFrom(items, i, type) ==
  IF i > Len(items) THEN Ret(Undefined)
  ELSE IF items[i].kind = "null" THEN Threw("TypeError")
  ELSE IF Get(items[i], "@type:") = Str(<<type>>) THEN Ret(items[i])
  ELSE FindFrom(items, i + 1, type)

\* details.find((d) => d['@type'] === type): only an array has find
Find(details, type) ==
  IF details.kind = "array" THEN FindFrom(details.items, 1, type)
  ELSE Threw("TypeError")

\* the delay in seconds, null when there is none; only a string has replace
getRetryDelay(details) ==
  LET retryInfo == Find(details, RetryInfoType)
  IN IF retryInfo.threw THEN retryInfo
     ELSE LET retryDelay == OptGet(retryInfo.val, "retryDelay:")
          IN IF Truthy(retryDelay)
             THEN IF retryDelay.kind = "string"
                  THEN Ret(ParseInt(Replace(retryDelay.chars, "s")))
                  ELSE Threw("TypeError")
             ELSE Ret(Null)

\* only an array has forEach; v.quotaId of a null violation is a TypeError
logQuotaViolations(details) ==
  LET quotaInfo == Find(details, QuotaFailureType)
  IN IF quotaInfo.threw THEN quotaInfo
     ELSE LET violations == OptGet(quotaInfo.val, "violations:")
          IN IF Truthy(violations)
             THEN IF violations.kind = "array"
                     /\ \A i \in 1..Len(violations.items) :
                          violations.items[i].kind # "null"
                  THEN Ret(Undefined)
                  ELSE Threw("TypeError")
             ELSE Ret(Undefined)

(***************************************************************************)
(* The catch block of retryWithBackoff, from the parse of the message to   *)
(* the start of a sleep or the throw that leaves the wrapper.              *)
(***************************************************************************)
\* JSON.parse(errorMessage).error
ClientError(message) ==
  LET errorMessage ==
        Substring(message, IndexOf(message, "{"), LastIndexOf(message, "}") + 1)
      parsed == JSONparse(errorMessage)
  IN IF parsed.threw THEN parsed
     ELSE IF parsed.val.kind = "null" THEN Threw("TypeError")
     ELSE Ret(Get(parsed.val, "error:"))

\* clientError?.code === 429
Is429(clientError) == OptGet(clientError, "code:") = Num(429)

\* the try block of a 429: the seconds to wait before `continue`, 0 when the
\* block falls through to the check of the attempts (no delay, or a delay
\* that is falsy, or a TypeError caught as parseError)
RateLimitDelay(clientError) ==
  LET given == Get(clientError, "details:")
      details == IF Truthy(given) THEN given ELSE Arr(<<>>)
      delay == getRetryDelay(details)
  IN IF delay.threw THEN 0
     ELSE IF logQuotaViolations(details).threw THEN 0
     ELSE IF Truthy(delay.val) THEN delay.val.n
     ELSE 0

RECURSIVE Decimal(_)
\* `${n}` of a whole number n >= 0
Decimal(n) ==
  IF n < 10 THEN <<DigitSeq[n + 1]>>
  ELSE Append(Decimal(n \div 10), DigitSeq[(n % 10) + 1])

RECURSIVE Pow2(_)
Pow2(n) == IF n = 0 THEN 1 ELSE 2 * Pow2(n - 1)

NoError == [name |-> "", message |-> <<>>]
Sleep(ms) == [do |-> "sleep", ms |-> ms, error |-> NoError]
Throw(name, message) ==
  [do |-> "throw", ms |-> 0, error |-> [name |-> name, message |-> message]]

\* the error of a wrapper that reports the retries made, one less than the
\* attempts
ExhaustionErrorCountingRetries(maxR, message) ==
  Throw("Error",
        <<"Failed", "after">> \o Decimal(maxR - 1) \o <<"attempts:">> \o message)

\* new Error(`Failed after ${maxRetries} attempts: ${error.message}`)
ExhaustionError(maxR, message) ==
  Throw("Error", <<"Failed", "after">> \o Decimal(maxR) \o <<"attempts:">> \o message)

\* a backoff that counts the failures from 0
backoffDelayFromZero(att) == Pow2(att - 1) * 1000

\* Math.pow(2, attempts) * 1000
backoffDelay(att) == Pow2(att) * 1000

\* what the catch block does with the message of the failure, att being the
\* counter after attempts++
Catch(message, att, maxR) ==
  LET clientError == ClientError(message)
  IN IF clientError.threw
     THEN Throw(clientError.name, <<"cannot", "parse">>)
     ELSE IF Is429(clientError.val) /\ RateLimitDelay(clientError.val) # 0
          THEN Sleep(RateLimitDelay(clientError.val) * 1000)
          ELSE IF att = maxR THEN ExhaustionError(maxR, message)
               ELSE Sleep(backoffDelay(att))

(***************************************************************************)
(* The messages fn fails with.  The service's message is a line of text    *)
(* followed by the JSON body of the response.                              *)
(***************************************************************************)
Body(code, rest) ==
  <<"ApiError:", "{", "error:", "{", "code:">> \o code \o rest \o <<"}", "}">>
Details(items) == <<"details:", "[">> \o items \o <<"]">>
RetryInfo(delay) ==
  <<"{", "@type:", "\"", RetryInfoType, "\"", "retryDelay:">> \o delay \o <<"}">>
QuotaFailure(violations) ==
  <<"{", "@type:", "\"", QuotaFailureType, "\"", "violations:">>
    \o violations \o <<"}">>
Quoted(chars) == <<"\"">> \o chars \o <<"\"">>
Violation ==
  <<"{", "quotaId:", "\"", "A", "\"", "quotaValue:", "\"", "1", "0", "\"", "}">>
C429 == <<"4", "2", "9">>

\* no braces at all
MsgPlain == <<"fetch", "failed">>
\* braces around text that is no JSON
MsgBadJson == <<"ApiError:", "{", "oops", "}">>
\* the closing brace before the opening one
MsgReversed == <<"}", "5", "{">>
MsgReversedNull == <<"}", "null", "{">>
\* a payload without the expected fields
MsgEmptyObject == <<"ApiError:", "{", "}">>
Msg500 == Body(<<"5", "0", "0">>, <<>>)
\* the code as a string
MsgCodeString == Body(Quoted(C429), <<>>)
Msg429 == Body(C429, <<>>)
Msg429NoItems == Body(C429, Details(<<>>))
Msg429DetailsText == Body(C429, <<"details:">> \o Quoted(<<"x">>))
Msg429Delay(d) == Body(C429, Details(RetryInfo(Quoted(Decimal(d) \o <<"s">>))))
Msg429DelayNumber == Body(C429, Details(RetryInfo(<<"3">>)))
Msg429DelayWord == Body(C429, Details(RetryInfo(Quoted(<<"soon">>))))
Msg429Quota == Body(C429, Details(QuotaFailure(<<"[">> \o Violation \o <<"]">>)))
Msg429DelayQuota(d, violations) ==
  Body(C429, Details(RetryInfo(Quoted(Decimal(d) \o <<"s">>))
                       \o QuotaFailure(violations)))
ViolationList == <<"[">> \o Violation \o <<"]">>
ViolationText == Quoted(<<"x">>)

Messages ==
  { MsgPlain, MsgBadJson, MsgReversed, MsgReversedNull, MsgEmptyObject,
    Msg500, MsgCodeString, Msg429, Msg429NoItems, Msg429DetailsText,
    Msg429Delay(0), Msg429Delay(3), Msg429DelayNumber, Msg429DelayWord,
    Msg429Quota, Msg429DelayQuota(3, ViolationList),
    Msg429DelayQuota(3, ViolationText) }

\* the messages of the two interleaved calls
MessagesTwo ==
  { Msg500, Msg429DelayQuota(3, ViolationList), Msg429DelayQuota(3, ViolationText) }

(***************************************************************************)
(* The state: one record of fields per call of retryWithBackoff.           *)
(***************************************************************************)
VARIABLES
  pc,          \* "idle" (not called yet), "inflight" (awaiting fn()),
               \* "sleeping" (awaiting the timer), "done"
  maxRetries,  \* the argument of the call
  attempts,    \* the local counter
  inflight,    \* invocations of fn that have not settled yet
  invocations, \* how many times fn was invoked
  errors,      \* the messages fn failed with, in order
  values,      \* the values fn succeeded with, in order
  sleeps,      \* the delays of the timers started, in ms, in order
  result,      \* what the call returned: <<v>>, or <<>>
  thrown       \* the error the call threw, or NoError

wrapperVars == <<pc, maxRetries, attempts, inflight, invocations, errors,
                 values, sleeps, result, thrown>>

\* one run of main() of podcast-summary.js, and the files of its directory
VARIABLES
  mainPc,          \* the await main() is at; "idle" before, "ended" after
  outcome,         \* of the promise main() returned: "", "resolved", "rejected"
  opts,            \* the options of the command line
  downloadedAudio, \* the local of that name
  filename,        \* the local of that name (<<>> for null)
  summaryName,     \* the local of that name, once computed
  audioFilename,   \* the local of that name, once computed
  files            \* the files that exist: a set of <<path, content>>

mainVars == <<mainPc, outcome, opts, downloadedAudio, filename, summaryName,
              audioFilename, files>>

vars == <<wrapperVars, mainVars>>

Init ==
  /\ pc = [c \in Calls |-> "idle"]
  /\ maxRetries = [c \in Calls |-> 0]
  /\ attempts = [c \in Calls |-> 0]
  /\ inflight = [c \in Calls |-> 0]
  /\ invocations = [c \in Calls |-> 0]
  /\ errors = [c \in Calls |-> <<>>]
  /\ values = [c \in Calls |-> <<>>]
  /\ sleeps = [c \in Calls |-> <<>>]
  /\ result = [c \in Calls |-> <<>>]
  /\ thrown = [c \in Calls |-> NoError]
  /\ mainPc = "idle"
  /\ outcome = ""
  /\ opts = [audio |-> <<>>, transcription |-> <<>>, metadata |-> <<>>,
             save |-> FALSE]
  /\ downloadedAudio = FALSE
  /\ filename = <<>>
  /\ summaryName = <<>>
  /\ audioFilename = <<>>
  /\ files = {}

\* fn() is called: the first statement of every turn of the loop
InvokeFn(c) ==
  /\ pc' = [pc EXCEPT ![c] = "inflight"]
  /\ inflight' = [inflight EXCEPT ![c] = @ + 1]
  /\ invocations' = [invocations EXCEPT ![c] = @ + 1]

\* retryWithBackoff(fn, n) is called: attempts = 0, and fn is invoked
Call(c, n) ==
  /\ pc[c] = "idle"
  /\ maxRetries' = [maxRetries EXCEPT ![c] = n]
  /\ attempts' = [attempts EXCEPT ![c] = 0]
  /\ InvokeFn(c)
  /\ UNCHANGED <<errors, values, sleeps, result, thrown>>
  /\ UNCHANGED mainVars

\* a wrapper that awaits fn() without returning its value: the loop turns
\* and fn is invoked again
FnReturnsWithoutReturn(c, v) ==
  /\ pc[c] = "inflight"
  /\ values' = [values EXCEPT ![c] = Append(@, v)]
  /\ invocations' = [invocations EXCEPT ![c] = @ + 1]
  /\ UNCHANGED <<pc, inflight, maxRetries, attempts, errors, sleeps, result,
                 thrown>>
  /\ UNCHANGED mainVars

\* fn() fulfils with v: return await fn()
FnReturns(c, v) ==
  /\ pc[c] = "inflight"
  /\ values' = [values EXCEPT ![c] = Append(@, v)]
  /\ inflight' = [inflight EXCEPT ![c] = @ - 1]
  /\ result' = [result EXCEPT ![c] = <<v>>]
  /\ pc' = [pc EXCEPT ![c] = "done"]
  /\ UNCHANGED <<maxRetries, attempts, invocations, errors, sleeps, thrown>>
  /\ UNCHANGED mainVars

\* a counter that all the calls share
NextAttemptsShared(c) == attempts[1] + attempts[2] + 1

\* attempts++
NextAttempts(c) == attempts[c] + 1

\* fn() rejects with an error of message m: the catch block
FnThrows(c, m) ==
  /\ pc[c] = "inflight"
  /\ errors' = [errors EXCEPT ![c] = Append(@, m)]
  /\ inflight' = [inflight EXCEPT ![c] = @ - 1]
  /\ attempts' = [attempts EXCEPT ![c] = NextAttempts(c)]
  /\ LET todo == Catch(m, NextAttempts(c), maxRetries[c])
     IN IF todo.do = "sleep"
        THEN /\ sleeps' = [sleeps EXCEPT ![c] = Append(@, todo.ms)]
             /\ pc' = [pc EXCEPT ![c] = "sleeping"]
             /\ UNCHANGED thrown
        ELSE /\ thrown' = [thrown EXCEPT ![c] = todo.error]
             /\ pc' = [pc EXCEPT ![c] = "done"]
             /\ UNCHANGED sleeps
  /\ UNCHANGED <<maxRetries, invocations, values, result>>
  /\ UNCHANGED mainVars

\* the timer of the sleep fires: the loop turns and fn is invoked again
\* (the model stops a call at cap invocations)
TimerFires(c, cap) ==
  /\ pc[c] = "sleeping"
  /\ invocations[c] < cap
  /\ InvokeFn(c)
  /\ UNCHANGED <<maxRetries, attempts, errors, values, sleeps, result, thrown>>
  /\ UNCHANGED mainVars

\* one call of the wrapper
Next ==
  \/ \E n \in 1..MaxRetriesBound : Call(1, n)
  \/ \E v \in Values : FnReturns(1, v)
  \/ \E m \in Messages : FnThrows(1, m)
  \/ TimerFires(1, MaxInvocations)

Spec == Init /\ [][Next]_vars

\* two calls of the wrapper, interleaved at their awaits
NextTwo ==
  \E c \in Calls :
    \/ \E n \in 1..MaxRetriesTwo : Call(c, n)
    \/ \E v \in Values : FnReturns(c, v)
    \/ \E m \in MessagesTwo : FnThrows(c, m)
    \/ TimerFires(c, MaxInvocationsTwo)

SpecTwo == Init /\ [][NextTwo]_vars

(***************************************************************************)
(* main() of podcast-summary.js.  A path or a file name is a sequence of   *)
(* tokens as well: a token that ends in "/" closes a directory (or the     *)
(* scheme and host of a URL), a token that starts with "." is a dot with   *)
(* what follows it up to the next dot.                                     *)
(***************************************************************************)
SlashTokens == {"http://", "https://", "host/", "feeds/"}
DotTokens == {".", ".mp3", ".md"}

\* s.startsWith('http://') || s.startsWith('https://')
IsHttpUrl(s) == s # <<>> /\ s[1] \in {"http://", "https://"}

\* s.replace(/[:.]/g, '-')
ReplaceColonsAndDots(s) ==
  [i \in 1..Len(s) |-> IF s[i] \in {":", "."} THEN "-" ELSE s[i]]

\* path.extname(p): from the last dot of the last segment of p to its end,
\* '' when that segment has no dot or only starts with one
extname(p) ==
  LET slashes == {i \in 1..Len(p) : p[i] \in SlashTokens}
      start == IF slashes = {} THEN 1
               ELSE (CHOOSE i \in slashes : \A j \in slashes : j <= i) + 1
      dots == {i \in (start + 1)..Len(p) : p[i] \in DotTokens}
  IN IF dots = {} THEN <<>>
     ELSE SubSeq(p, CHOOSE i \in dots : \A j \in dots : j <= i, Len(p))

\* s.replace(/\.md$/, by): the pattern matches at the very end of s only
ReplaceMdAtEnd(s, by) ==
  IF s # <<>> /\ Last(s) = ".md" THEN SubSeq(s, 1, Len(s) - 1) \o by ELSE s

\* new Date().toISOString()
IsoNow == <<"2026-11-01T07", ":", "31", ":", "00", ".", "000Z">>

\* the tempPath of download(url)
TempPath(url) == <<"download-">> \o ReplaceColonsAndDots(IsoNow) \o extname(url)

\* fs.writeFile, fs.rename and fs.unlink on the set of files
Exists(fs, p) == \E f \in fs : f[1] = p
ContentOf(fs, p) == (CHOOSE f \in fs : f[1] = p)[2]
WriteFile(fs, p, content) == {f \in fs : f[1] # p} \cup {<<p, content>>}
Rename(fs, from, to) ==
  IF from = to THEN fs
  ELSE {f \in fs : f[1] # from /\ f[1] # to} \cup {<<to, ContentOf(fs, from)>>}
Unlink(fs, p) == {f \in fs : f[1] # p}

\* the command lines collectInput() lets through
AudioOptions ==
  { <<>>, <<"episode", ".mp3">>, <<"https://", "host/", "ep12", ".mp3">>,
    <<"http://", "host/", "feeds/", "ep12">>,
    <<"https://", "host/", "ep12", ".md">> }
Options ==
  { o \in [audio : AudioOptions,
           transcription : {<<>>, <<"https://", "host/", "transcript">>},
           metadata : {<<>>, <<"https://", "host/", "meta">>},
           save : BOOLEAN] :
      /\ o.transcription # <<>> \/ o.audio # <<>>
      /\ o.metadata # <<>> => o.audio # <<>> }

\* the texts generateFilename can resolve with: what the model answers, that
\* is asked for a name ending in .md
Filenames ==
  { <<"show-ep12", ".md">>, <<"show-ep12">>, <<"show-ep12", ".md", "\n">> }

\* where main() goes once the audio is local
ContentStage(o) ==
  IF o.audio # <<>>
  THEN IF o.metadata # <<>> THEN "metadata" ELSE "transcribe"
  ELSE "scrape"

\* after content is set: if (opts.save)
SaveStage(o) == IF o.save THEN "filename" ELSE "summarize"

\* the promise of main() settles
Settle(how) == mainPc' = "ended" /\ outcome' = how

\* main() starts: the options, the API key, and the test for a URL
Main(o, apiKey) ==
  /\ mainPc = "idle"
  /\ opts' = o
  /\ IF ~apiKey THEN Settle("rejected")
     ELSE /\ mainPc' = IF IsHttpUrl(o.audio) THEN "download" ELSE ContentStage(o)
          /\ UNCHANGED outcome
  /\ UNCHANGED <<downloadedAudio, filename, summaryName, audioFilename, files>>
  /\ UNCHANGED wrapperVars

\* audioPath = await download(audioPath)
Download(ok) ==
  /\ mainPc = "download"
  /\ IF ok
     THEN LET tempPath == TempPath(opts.audio)
              o == [opts EXCEPT !.audio = tempPath, !.transcription = <<>>]
          IN /\ files' = WriteFile(files, tempPath, "audio")
             /\ downloadedAudio' = TRUE
             /\ opts' = o
             /\ mainPc' = ContentStage(o)
             /\ UNCHANGED outcome
     ELSE /\ Settle("rejected")
          /\ UNCHANGED <<files, downloadedAudio, opts>>
  /\ UNCHANGED <<filename, summaryName, audioFilename>>
  /\ UNCHANGED wrapperVars

\* an await of main() that changes no local and no file: on to stage `to`
\* when it fulfils, out of main() when it rejects
Await(at, ok, to) ==
  /\ mainPc = at
  /\ IF ok THEN mainPc' = to /\ UNCHANGED outcome ELSE Settle("rejected")
  /\ UNCHANGED <<opts, downloadedAudio, filename, summaryName, audioFilename,
                 files>>
  /\ UNCHANGED wrapperVars

\* metadata = await scrape(opts.metadata)
ScrapeMetadata(ok) == Await("metadata", ok, "transcribe")

\* content = await transcribe(apiKey, opts.model, opts.audio, metadata)
Transcribe(ok) == Await("transcribe", ok, SaveStage(opts))

\* content = await scrape(opts.transcription)
ScrapeTranscription(ok) == Await("scrape", ok, SaveStage(opts))

\* filename = await generateFilename(apiKey, opts.model, content)
GenerateFilename(ok, name) ==
  /\ mainPc = "filename"
  /\ IF ok
     THEN filename' = name /\ mainPc' = "writeTranscription" /\ UNCHANGED outcome
     ELSE Settle("rejected") /\ UNCHANGED filename
  /\ UNCHANGED <<opts, downloadedAudio, summaryName, audioFilename, files>>
  /\ UNCHANGED wrapperVars

\* await fs.writeFile(filename, content)
WriteTranscription ==
  /\ mainPc = "writeTranscription"
  /\ files' = WriteFile(files, filename, "transcription")
  /\ mainPc' = "summarize"
  /\ UNCHANGED <<outcome, opts, downloadedAudio, filename, summaryName,
                 audioFilename>>
  /\ UNCHANGED wrapperVars

\* const summary = await summarize(apiKey, opts.model, content)
Summarize(ok) ==
  /\ mainPc = "summarize"
  /\ IF ~ok THEN Settle("rejected")
     ELSE IF opts.save THEN mainPc' = "writeSummary" /\ UNCHANGED outcome
     ELSE IF downloadedAudio THEN mainPc' = "unlink" /\ UNCHANGED outcome
     ELSE Settle("resolved")
  /\ UNCHANGED <<opts, downloadedAudio, filename, summaryName, audioFilename,
                 files>>
  /\ UNCHANGED wrapperVars

\* summaryName, and await fs.writeFile(summaryName, summary)
WriteSummary ==
  /\ mainPc = "writeSummary"
  /\ LET name == ReplaceMdAtEnd(filename, <<"-summary", ".md">>)
     IN /\ summaryName' = name
        /\ files' = WriteFile(files, name, "summary")
  /\ IF downloadedAudio THEN mainPc' = "rename" /\ UNCHANGED outcome
     ELSE Settle("resolved")
  /\ UNCHANGED <<opts, downloadedAudio, filename, audioFilename>>
  /\ UNCHANGED wrapperVars

\* audioFilename, and await fs.rename(opts.audio, audioFilename)
RenameAudio ==
  /\ mainPc = "rename"
  /\ LET extension == extname(opts.audio)
         name == ReplaceMdAtEnd(filename, extension)
     IN /\ audioFilename' = name
        /\ files' = Rename(files, opts.audio, name)
  /\ Settle("resolved")
  /\ UNCHANGED <<opts, downloadedAudio, filename, summaryName>>
  /\ UNCHANGED wrapperVars

\* try { await fs.unlink(opts.audio) } catch (err) { a warning }
UnlinkAudio(ok) ==
  /\ mainPc = "unlink"
  /\ files' = IF ok THEN Unlink(files, opts.audio) ELSE files
  /\ Settle("resolved")
  /\ UNCHANGED <<opts, downloadedAudio, filename, summaryName, audioFilename>>
  /\ UNCHANGED wrapperVars

\* one run of main()
NextMain ==
  \/ \E o \in Options : \E apiKey \in BOOLEAN : Main(o, apiKey)
  \/ \E ok \in BOOLEAN : Download(ok)
  \/ \E ok \in BOOLEAN : ScrapeMetadata(ok)
  \/ \E ok \in BOOLEAN : Transcribe(ok)
  \/ \E ok \in BOOLEAN : ScrapeTranscription(ok)
  \/ \E ok \in BOOLEAN : \E name \in Filenames : GenerateFilename(ok, name)
  \/ WriteTranscription
  \/ \E ok \in BOOLEAN : Summarize(ok)
  \/ WriteSummary
  \/ RenameAudio
  \/ \E ok \in BOOLEAN : UnlinkAudio(ok)

SpecMain == Init /\ [][NextMain]_vars

(***************************************************************************)
(* The properties.                                                         *)
(***************************************************************************)
Called(c) == pc[c] # "idle"
Returned(c) == result[c] # <<>>
\* the error made at web.js:259, by its shape
IsExhaustion(e) ==
  /\ e.name = "Error"
  /\ Len(e.message) >= 2
  /\ SubSeq(e.message, 1, 2) = <<"Failed", "after">>
Seconds(d) == d * 1000

\* C1: in one call of retryWithBackoff(fn, maxRetries), maxRetries >= 1, fn is
\* invoked at most maxRetries times, whatever the kinds of the failures.
C1_InvocationsWithinBudget ==
  \A c \in Calls : Called(c) => invocations[c] <= maxRetries[c]

\* C2: every call ends, and when fn fails on every invocation it ends with
\* the exhaustion error instead of retrying forever: the call is over as
\* soon as its counter has reached maxRetries.
C2_EndsOnceBudgetSpent ==
  \A c \in Calls :
    (Called(c) /\ attempts[c] >= maxRetries[c]) => pc[c] = "done"

\* the exhaustion error is raised only where the counter equals maxRetries,
\* and the counter only grows: a call that has gone past it never raises it
PastBudgetNeverExhausted ==
  \A c \in Calls : attempts[c] > maxRetries[c] => ~IsExhaustion(thrown[c])

\* a message with no parsable payload: no braces, or no JSON between them
Unparsable(m) == m \in {MsgPlain, MsgBadJson}

\* C3: when every invocation fails with a non-429 error of unparsable
\* message, the call ends with the exhaustion error at the maxRetries-th
\* failure, after sleeps of 2^1, ..., 2^(maxRetries-1) seconds in that order.
C3_UnparsableBackoffSchedule ==
  \A c \in Calls :
    ( /\ pc[c] = "done"
      /\ values[c] = <<>>
      /\ \A i \in 1..Len(errors[c]) : Unparsable(errors[c][i]) )
    => /\ IsExhaustion(thrown[c])
       /\ Len(errors[c]) = maxRetries[c]
       /\ sleeps[c] = [i \in 1..(maxRetries[c] - 1) |-> Seconds(Pow2(i))]

\* C4: the only error that leaves the wrapper is the exhaustion error.
C4_OnlyExhaustionLeaves ==
  \A c \in Calls : thrown[c] # NoError => IsExhaustion(thrown[c])

\* the delays of the 429 payloads of the model, and the payloads carrying d
DelaysCarried == {0, 3}
CarryingDelay(d) ==
  {Msg429Delay(d), Msg429DelayQuota(d, ViolationList),
   Msg429DelayQuota(d, ViolationText)}

\* C5: after a failure with a 429 payload carrying a retry delay of d seconds,
\* d >= 0, with the attempt budget not spent, the wrapper sleeps d seconds
\* (and not 2^attempts seconds) before the next invocation.
C5_ServerDelayHonoured ==
  \A c \in Calls : \A d \in DelaysCarried :
    ( /\ errors[c] # <<>>
      /\ Last(errors[c]) \in CarryingDelay(d)
      /\ attempts[c] < maxRetries[c] )
    => /\ Len(sleeps[c]) = Len(errors[c])
       /\ Last(sleeps[c]) = Seconds(d)

\* C6: once an invocation of fn has succeeded, after k >= 0 failures, the call
\* is over and has returned the value of that invocation; fn was invoked
\* k + 1 times and there were k sleeps, with no invocation and no sleep after
\* the success (none at all besides the one invocation when k = 0).
C6_SuccessReturnsAtOnce ==
  \A c \in Calls :
    values[c] # <<>> =>
      /\ pc[c] = "done"
      /\ Len(values[c]) = 1
      /\ result[c] = <<values[c][1]>>
      /\ thrown[c] = NoError
      /\ invocations[c] = Len(errors[c]) + 1
      /\ Len(sleeps[c]) = Len(errors[c])
      /\ inflight[c] = 0

C6_Witness ==
  /\ values[1] # <<>>
  /\ Len(errors[1]) = 2
  /\ maxRetries[1] = 3

\* C7: the message of the exhaustion error is 'Failed after N attempts: M',
\* N the number of invocations of fn in the call and M the message of the
\* failure of the last invocation.
C7_ExhaustionMessage ==
  \A c \in Calls :
    thrown[c].name = "Error" =>
      LET msg == thrown[c].message
          M == Last(errors[c])
          n == Len(msg) - Len(M) - 3
      IN /\ errors[c] # <<>>
         /\ n >= 1
         /\ SubSeq(msg, 1, 2) = <<"Failed", "after">>
         /\ \A i \in 3..(2 + n) : msg[i] \in Digits
         /\ ParseInt(SubSeq(msg, 3, 2 + n)) = Num(invocations[c])
         /\ msg[3 + n] = "attempts:"
         /\ SubSeq(msg, 4 + n, Len(msg)) = M

C7_Witness ==
  /\ thrown[1].name = "Error"
  /\ invocations[1] = 3
  /\ errors[1][1] # errors[1][3]
  /\ errors[1][2] # errors[1][3]

\* two failures that differ in the quota-violation descriptor only
SameButQuota(m1, m2) ==
  \E d \in DelaysCarried : m1 \in CarryingDelay(d) /\ m2 \in CarryingDelay(d)

\* C8: two 429 failures that are identical except for the quota-violation
\* descriptor, handled at the same value of the counter under the same
\* maxRetries, get the same decision (retry or not) and the same delay.
C8_QuotaDescriptorIgnored ==
  \A c1 \in Calls : \A c2 \in Calls :
    ( /\ attempts[c1] >= 1
      /\ attempts[c1] = attempts[c2]
      /\ maxRetries[c1] = maxRetries[c2]
      /\ SameButQuota(Last(errors[c1]), Last(errors[c2])) )
    => LET k == attempts[c1]
       IN /\ (Len(sleeps[c1]) = k) <=> (Len(sleeps[c2]) = k)
          /\ (Len(sleeps[c1]) = k /\ Len(sleeps[c2]) = k) =>
               sleeps[c1][k] = sleeps[c2][k]

\* what a call does at its i-th failure when it runs alone
Alone(c, i) == Catch(errors[c][i], i, maxRetries[c])

\* C9: a call has at most one invocation of fn in flight, and it counts its
\* own failures only: its counter, its sleeps and its end are those of the
\* same call run alone on the same failures, whatever the other call does.
C9_CallsIndependent ==
  \A c \in Calls :
    /\ inflight[c] <= 1
    /\ attempts[c] = Len(errors[c])
    /\ \A i \in 1..Len(errors[c]) :
         IF Alone(c, i).do = "sleep"
         THEN Len(sleeps[c]) >= i /\ sleeps[c][i] = Alone(c, i).ms
         ELSE /\ i = Len(errors[c])
              /\ Len(sleeps[c]) = i - 1
              /\ pc[c] = "done"
              /\ thrown[c] = Alone(c, i).error
    /\ thrown[c] # NoError =>
         errors[c] # <<>> /\ Alone(c, Len(errors[c])).do = "throw"

C9_Witness ==
  /\ IsExhaustion(thrown[1])
  /\ attempts[1] = 2
  /\ pc[2] = "sleeping"
  /\ attempts[2] = 1
  /\ maxRetries[2] = 2

\* C10: a malformed message is unclassified at every value of the counter
\* and after every history: the i-th failure, when malformed, takes the path
\* of the exponential backoff (a sleep of 2^i seconds, or the exhaustion
\* error when i is maxRetries).
C10_MalformedAlwaysBacksOff ==
  \A c \in Calls : \A i \in 1..Len(errors[c]) :
    Unparsable(errors[c][i]) =>
      IF i = maxRetries[c]
      THEN IsExhaustion(thrown[c])
      ELSE Len(sleeps[c]) >= i /\ sleeps[c][i] = Seconds(Pow2(i))

\* the messages whose payload parses and is no 429, or is a 429 whose details
\* are absent, empty, or without a retry-delay descriptor
ParsedWithoutDelay ==
  {MsgEmptyObject, Msg500, MsgCodeString, Msg429, Msg429NoItems, Msg429Quota}

\* C11: the k-th failure of a call, k counting every failure before it (those
\* retried after a server-specified delay too), when k < maxRetries and its
\* payload parses and is no 429 or a 429 without a retry delay, is followed
\* by a sleep of exactly 2^k seconds, and then by the next invocation of fn.
C11_BackoffIsTwoToTheFailures ==
  \A c \in Calls : \A k \in 1..Len(errors[c]) :
    (k < maxRetries[c] /\ errors[c][k] \in ParsedWithoutDelay) =>
      /\ Len(sleeps[c]) >= k
      /\ sleeps[c][k] = Seconds(Pow2(k))
      /\ IF k = Len(errors[c]) /\ pc[c] = "sleeping"
         THEN invocations[c] = k
         ELSE invocations[c] >= k + 1

\* the second failure, after a 429 retried on the server's delay
C11_Witness ==
  /\ maxRetries[1] = 3
  /\ Len(errors[1]) = 2
  /\ errors[1][1] = Msg429Delay(3)
  /\ errors[1][2] = Msg500
  /\ sleeps[1] = <<Seconds(3), Seconds(4)>>
  /\ pc[1] = "inflight"
  /\ invocations[1] = 3

\* invocations of fn and sleeps alternate, the first invocation first: while
\* fn is pending or the call is over there is one sleep less than
\* invocations, during a sleep as many; and the exhaustion error follows the
\* last failure with no sleep in between
SleepsAndInvocationsAlternate ==
  \A c \in Calls :
    /\ pc[c] \in {"inflight", "done"} => invocations[c] = Len(sleeps[c]) + 1
    /\ pc[c] = "sleeping" =>
         invocations[c] = Len(sleeps[c]) /\ Len(sleeps[c]) = Len(errors[c])
    /\ IsExhaustion(thrown[c]) => Len(sleeps[c]) = Len(errors[c]) - 1

\* C12: invocations of fn and sleeps strictly alternate, no sleep lies
\* between the last failure and the exhaustion error, and so with
\* maxRetries = 1 a failing fn is invoked once and there is no sleep at all.
C12_StrictAlternation ==
  /\ SleepsAndInvocationsAlternate
  /\ \A c \in Calls :
       (maxRetries[c] = 1 /\ errors[c] # <<>>) =>
         invocations[c] = 1 /\ sleeps[c] = <<>>

\* C13: when --audio is an http(s) URL and --save is not given, the temporary
\* file that download() wrote does not exist any more once main() has ended,
\* whether main() resolved or rejected.
C13_TempFileGoneAtEnd ==
  (mainPc = "ended" /\ downloadedAudio /\ ~opts.save) =>
    ~Exists(files, opts.audio)

\* C14: with --save, the transcription, the summary and (when the audio was
\* downloaded) the renamed audio are written to pairwise distinct paths, for
\* every name generateFilename returns and every audio URL: at the end the
\* transcription is still in the file it was saved to.
C14_SavedFilesDistinct ==
  (mainPc = "ended" /\ outcome = "resolved" /\ opts.save) =>
    /\ summaryName # filename
    /\ downloadedAudio =>
         audioFilename # filename /\ audioFilename # summaryName
    /\ Exists(files, filename)
    /\ ContentOf(files, filename) = "transcription"

\* the three paths differ where the name ends in .md and the audio's
\* extension is not .md
SavedFilesDistinctForMdNames ==
  ( /\ mainPc = "ended" /\ outcome = "resolved" /\ opts.save
    /\ Last(filename) = ".md"
    /\ downloadedAudio => extname(opts.audio) # <<".md">> )
  => /\ summaryName # filename
     /\ ContentOf(files, filename) = "transcription"
     /\ ContentOf(files, summaryName) = "summary"
     /\ downloadedAudio =>
          /\ audioFilename # filename /\ audioFilename # summaryName
          /\ ContentOf(files, audioFilename) = "audio"

====
